---- MODULE Spec2Model ----
(***************************************************************************)
(* Model of automata/core.py: the Rule encoding/decoding scheme, the       *)
(* pattern_to_output table, and the CellularAutomata lattice engine with   *)
(* its memoized construction, its lattice access and the validation of     *)
(* slice and highlight bounds.                                             *)
(*                                                                         *)
(* Strings are sequences of one-character strings.  Index i of a Python    *)
(* sequence is index i+1 here; the loop variable `row` and the claims'     *)
(* row and column numbers keep their Python (0-based) values.              *)
(***************************************************************************)
EXTENDS Integers, Sequences, FiniteSets, TLC

VARIABLES
    instances,  \* CellularAutomata._instances: memo key -> engine object
    pc,         \* position of the running call
    call,       \* arguments of the running (or last) constructor call, and
                \* whether __new__ found its key in the cache
    row,        \* loop variable of _compute_automaton
    locals,     \* left_boundary, right_boundary of the last loop iteration
    outcome,    \* what the last constructor call gave its caller
    returned,   \* per constructor call: the grid handed to the caller
    inp,        \* what the caller holds: the inputs of a standalone Rule /
                \* _encode / _decode call, or its HighlightBounds and slice
    out         \* result of the last standalone call or engine request

vars == <<instances, pc, call, row, locals, outcome, returned, inp, out>>

----------------------------------------------------------------------------
(* Bounds *)

MaxBase == 3            \* bases 2..MaxBase
MaxValue == 40          \* standalone _encode values 0..MaxValue
MaxLen == 8             \* standalone _encode lengths 1..MaxLen
MaxRuleNumber == 257    \* standalone Rule numbers -1..MaxRuleNumber
MaxWidth == 3           \* frame_width 1..MaxWidth
MaxSteps == 3           \* frame_steps 1..MaxSteps
MaxICLen == 2           \* initial_conditions of length 0..MaxICLen
MaxInstances == 3       \* size of the memo cache in Spec
MaxField == 4           \* HighlightBounds and SliceSpec fields -1..MaxField

\* Python integers are unbounded.  Powers saturate at IntCap; every other
\* operand is below IntCap, so comparisons with a power and floor divisions
\* by a power give the exact Python result.
IntCap == 1073741824

----------------------------------------------------------------------------
(* Exceptions and results *)

Ok(v) == [exc |-> "none", msg |-> "", val |-> v]

Raise(e, m) == [exc |-> e, msg |-> m, val |-> <<>>]

Pending == [exc |-> "pending", msg |-> "", val |-> <<>>]

----------------------------------------------------------------------------
(* Integer and sequence helpers *)

Min(a, b) == IF a < b THEN a ELSE b

RECURSIVE PowAcc(_, _, _)
PowAcc(b, e, acc) ==
    IF e = 0 \/ acc >= IntCap THEN Min(acc, IntCap)
    ELSE PowAcc(b, e - 1, IF b > 0 /\ acc > IntCap \div b THEN IntCap ELSE acc * b)

\* b ** e
Pow(b, e) == PowAcc(b, e, 1)

\* seq[::-1]
Reverse(s) == [i \in 1..Len(s) |-> s[Len(s) + 1 - i]]

\* '{:>{fill}{length}}'.format(s): right-align s in a field of `length`
Format(s, fill, length) ==
    IF Len(s) >= length THEN s
    ELSE [i \in 1..(length - Len(s)) |-> fill] \o s

RECURSIVE SumSeq(_)
SumSeq(s) == IF s = <<>> THEN 0 ELSE Head(s) + SumSeq(Tail(s))

----------------------------------------------------------------------------
(* Rule *)

ALPHABET == << "0", "1", "2", "3", "4", "5", "6", "7", "8", "9",
               "A", "B", "C", "D", "E", "F", "G", "H", "I", "J",
               "K", "L", "M", "N", "O", "P", "Q", "R", "S", "T",
               "U", "V", "W", "X", "Y", "Z" >>

\* Rule.ALPHABET[:n]
AlphabetPrefix(n) == SubSeq(ALPHABET, 1, Min(n, Len(ALPHABET)))

\* c in Rule.ALPHABET[:n]
InPrefix(c, n) == \E i \in 1..Len(AlphabetPrefix(n)) : ALPHABET[i] = c

\* Rule.ALPHABET.index(digit); -1 stands for the ValueError of a missing digit
AlphabetIndex(digit) ==
    IF \E i \in 1..Len(ALPHABET) : ALPHABET[i] = digit
    THEN (CHOOSE i \in 1..Len(ALPHABET) : ALPHABET[i] = digit) - 1
    ELSE -1

\* the list comprehension of _encode, before [::-1]
EncodeDigits(value, base, length) ==
    [j \in 1..length |-> ALPHABET[((value \div Pow(base, j - 1)) % base) + 1]]

\* _encode without the [::-1] reversal
_encode_unreversed(value, base, length) ==
    IF base > Len(ALPHABET)
    THEN Raise("ValueError", "Base too large")
    ELSE IF base = 0 /\ length > 0
    THEN Raise("ZeroDivisionError", "modulo by zero")
    ELSE Ok(Format(EncodeDigits(value, base, length), ALPHABET[1], length))

_encode(value, base, length) ==
    IF base > Len(ALPHABET)
    THEN Raise("ValueError", "Base too large")
    ELSE IF base = 0 /\ length > 0
    THEN Raise("ZeroDivisionError", "modulo by zero")
    ELSE Ok(Format(Reverse(EncodeDigits(value, base, length)), ALPHABET[1], length))

\* _decode enumerating encoding instead of reversed(encoding)
DecodeTerms_unreversed(encoding, base) ==
    [j \in 1..Len(encoding) |-> AlphabetIndex(encoding[j]) * Pow(base, j - 1)]

\* the terms of the sum of _decode, in enumerate(reversed(encoding)) order
DecodeTerms(encoding, base) ==
    LET rev == Reverse(encoding)
    IN  [j \in 1..Len(encoding) |-> AlphabetIndex(rev[j]) * Pow(base, j - 1)]

\* _decode without its base check
_decode_unchecked(encoding, base) ==
    IF \E j \in 1..Len(encoding) : AlphabetIndex(encoding[j]) = -1
    THEN Raise("ValueError", "substring not found")
    ELSE Ok(SumSeq(DecodeTerms(encoding, base)))

_decode(encoding, base) ==
    IF base > Len(ALPHABET)
    THEN Raise("ValueError", "Base too large")
    ELSE IF \E j \in 1..Len(encoding) : AlphabetIndex(encoding[j]) = -1
    THEN Raise("ValueError", "substring not found")
    ELSE Ok(SumSeq(DecodeTerms(encoding, base)))

\* dict(zip(keys, values)): zip stops at the shorter list, a repeated key
\* keeps its last value
DictZip(keys, values) ==
    LET n == Min(Len(keys), Len(values))
    IN  [k \in {keys[i] : i \in 1..n} |->
            values[CHOOSE i \in 1..n :
                      keys[i] = k /\ \A j \in 1..n : keys[j] = k => j <= i]]

\* input_patterns over range(len(encoding) - 1): the last pattern is missing
input_patterns_short(encoding, base, input_span) ==
    Reverse([i \in 1..(Len(encoding) - 1) |-> _encode(i - 1, base, input_span).val])

\* input_patterns without input_patterns.reverse()
input_patterns_unreversed(encoding, base, input_span) ==
    [i \in 1..Len(encoding) |-> _encode(i - 1, base, input_span).val]

\* input_patterns of Rule.__init__, after input_patterns.reverse()
input_patterns(encoding, base, input_span) ==
    Reverse([i \in 1..Len(encoding) |-> _encode(i - 1, base, input_span).val])

NoRule == [base |-> 0, rule_number |-> 0, input_range |-> 0, input_span |-> 0,
           n_input_patterns |-> 0, n_rules |-> 0,
           encoding |-> <<>>, pattern_to_output |-> <<>>]

\* the range check one too wide: rule_number > self.n_rules
InvalidRuleNumber_offbyone(rule_number, n_rules) ==
    rule_number < 0 \/ rule_number > n_rules

\* rule_number < 0 or rule_number > self.n_rules - 1
InvalidRuleNumber(rule_number, n_rules) ==
    rule_number < 0 \/ rule_number > n_rules - 1

\* Rule(rule_number, base): the Rule object, or the exception raised
RuleNew(rule_number, base) ==
    LET input_range == 1
        input_span == 2 * input_range + 1
        n_input_patterns == Pow(base, input_span)
        n_rules == Pow(base, n_input_patterns)
        enc == _encode(rule_number, base, n_input_patterns)
    IN  IF InvalidRuleNumber(rule_number, n_rules)
        THEN Raise("CellularAutomataError", "Invalid rule number")
        ELSE IF enc.exc # "none" THEN enc
        ELSE Ok([base |-> base, rule_number |-> rule_number,
                 input_range |-> input_range, input_span |-> input_span,
                 n_input_patterns |-> n_input_patterns, n_rules |-> n_rules,
                 encoding |-> enc.val,
                 pattern_to_output |->
                     DictZip(input_patterns(enc.val, base, input_span), enc.val)])

----------------------------------------------------------------------------
(* CellularAutomata *)

NoValues == [rule_number |-> 0, initial_conditions |-> <<>>, base |-> 0,
             frame_width |-> 0, frame_steps |-> 0, boundary_condition |-> ""]

\* the key without the keyword arguments: key = args
Key_args_only(values, style) ==
    IF style = "keyword" THEN <<style, NoValues>> ELSE <<style, values>>

\* key = (args, frozenset(kwargs.items())): a call passing its arguments
\* by position and one passing the same values by keyword have different keys
Key(values, style) == <<style, values>>

\* the object made by super().__new__(cls): no attribute is set yet
NewObject == [_initialized |-> FALSE, rule_number |-> 0, frame_width |-> 0,
              frame_steps |-> 0, boundary_condition |-> "", rule |-> NoRule,
              _lattice |-> <<>>]

\* the memo guard taking any object that has attributes for a finished one
Initialized_when_attributes_set(obj) == obj # NewObject

\* __init__ without its memo guard: every call initializes the object again
Initialized_never(obj) == FALSE

\* the memo guard reading an attribute __init__ never sets
Initialized_wrong_attribute(obj) == obj.rule = NoRule /\ obj.frame_steps > 0

\* getattr(self, '_initialized', False)
Initialized(obj) == obj._initialized

valid_boundary_conditions == <<"zero", "periodic", "one">>

\* boundary_condition not in valid_boundary_conditions
InvalidBoundary(bc) ==
    ~ \E i \in 1..Len(valid_boundary_conditions) : valid_boundary_conditions[i] = bc

\* np.empty((frame_steps, frame_width), dtype='<U1') then fill(ALPHABET[0])
FilledLattice(frame_steps, frame_width) ==
    [r \in 1..frame_steps |-> [c \in 1..frame_width |-> ALPHABET[1]]]

\* the padding put at the right end: initial_conditions + Rule.ALPHABET[0]
Padded_at_right(initial_conditions) ==
    IF Len(initial_conditions) % 2 = 0
    THEN initial_conditions \o <<ALPHABET[1]>>
    ELSE initial_conditions

\* initial_conditions after the padding of an even-length string
Padded(initial_conditions) ==
    IF Len(initial_conditions) % 2 = 0
    THEN <<ALPHABET[1]>> \o initial_conditions
    ELSE initial_conditions

\* the centering rounded the other way: center - (len + 1) // 2
Start_rounded_up(ic, frame_width) == (frame_width \div 2) - ((Len(ic) + 1) \div 2)

\* start = frame_width // 2 - len(initial_conditions) // 2
Start(ic, frame_width) == (frame_width \div 2) - (Len(ic) \div 2)

\* the overflow check without its right-hand test: start < 0
Overflows_left_only(ic, frame_width) == Start(ic, frame_width) < 0

\* start < 0 or start + len(initial_conditions) > self.frame_width
Overflows(ic, frame_width) ==
    Start(ic, frame_width) < 0 \/ Start(ic, frame_width) + Len(ic) > frame_width

\* the symbol check against the whole alphabet: char not in Rule.ALPHABET
InvalidSymbol_any_base(char, base) == ~ InPrefix(char, Len(ALPHABET))

\* the symbol check one symbol too wide: char not in Rule.ALPHABET[:base + 1]
InvalidSymbol_next_base(char, base) == ~ InPrefix(char, base + 1)

\* char not in Rule.ALPHABET[:base]
InvalidSymbol(char, base) == ~ InPrefix(char, base)

\* number of characters the placement loop writes before it stops
Placed(ic, base) ==
    IF \E i \in 1..Len(ic) : InvalidSymbol(ic[i], base)
    THEN (CHOOSE i \in 1..Len(ic) :
             InvalidSymbol(ic[i], base) /\ \A j \in 1..(i - 1) : ~ InvalidSymbol(ic[j], base)) - 1
    ELSE Len(ic)

\* the lattice after the placement loop: self._lattice[0, start + idx] = char
PlaceRow0(lattice, ic, start, base) ==
    [lattice EXCEPT ![1] =
        [c \in 1..Len(lattice[1]) |->
            IF c - 1 >= start /\ c - 1 < start + Placed(ic, base)
            THEN ic[c - start] ELSE lattice[1][c]]]

\* __init__ building the Rule before it checks the boundary condition
InitHead_rule_first(obj, v) ==
    LET obj1 == [obj EXCEPT !.rule_number = v.rule_number,
                            !.frame_width = v.frame_width,
                            !.frame_steps = v.frame_steps,
                            !.boundary_condition = v.boundary_condition]
        rule == RuleNew(v.rule_number, v.base)
        obj2 == [obj1 EXCEPT !.rule = rule.val,
                             !._lattice = FilledLattice(v.frame_steps, v.frame_width)]
        ic == Padded(v.initial_conditions)
        start == Start(ic, v.frame_width)
        obj3 == [obj2 EXCEPT !._lattice = PlaceRow0(obj2._lattice, ic, start, v.base)]
    IN  IF rule.exc # "none"
        THEN [res |-> rule, obj |-> obj1]
        ELSE IF InvalidBoundary(v.boundary_condition)
        THEN [res |-> Raise("CellularAutomataError", "Invalid boundary condition"), obj |-> obj2]
        ELSE IF Overflows(ic, v.frame_width)
        THEN [res |-> Raise("CellularAutomataError", "Initial conditions overflow"), obj |-> obj2]
        ELSE IF Placed(ic, v.base) < Len(ic)
        THEN [res |-> Raise("CellularAutomataError", "invalid symbol"), obj |-> obj3]
        ELSE [res |-> Ok(<<>>), obj |-> obj3]

\* __init__ from the boundary check up to the call of _compute_automaton:
\* the exception raised (or none) and the object as the code leaves it
InitHead(obj, v) ==
    LET obj1 == [obj EXCEPT !.rule_number = v.rule_number,
                            !.frame_width = v.frame_width,
                            !.frame_steps = v.frame_steps,
                            !.boundary_condition = v.boundary_condition]
        rule == RuleNew(v.rule_number, v.base)
        obj2 == [obj1 EXCEPT !.rule = rule.val,
                             !._lattice = FilledLattice(v.frame_steps, v.frame_width)]
        ic == Padded(v.initial_conditions)
        start == Start(ic, v.frame_width)
        obj3 == [obj2 EXCEPT !._lattice = PlaceRow0(obj2._lattice, ic, start, v.base)]
    IN  IF InvalidBoundary(v.boundary_condition)
        THEN [res |-> Raise("CellularAutomataError", "Invalid boundary condition"), obj |-> obj]
        ELSE IF rule.exc # "none"
        THEN [res |-> rule, obj |-> obj1]
        ELSE IF Overflows(ic, v.frame_width)
        THEN [res |-> Raise("CellularAutomataError", "Initial conditions overflow"), obj |-> obj2]
        ELSE IF Placed(ic, v.base) < Len(ic)
        THEN [res |-> Raise("CellularAutomataError", "invalid symbol"), obj |-> obj3]
        ELSE [res |-> Ok(<<>>), obj |-> obj3]

\* "zero" returning the values of "one"
_get_boundary_values_zero_as_one(boundary_condition, current_row) ==
    IF boundary_condition = "zero"
    THEN [left |-> ALPHABET[2], right |-> ALPHABET[2]]
    ELSE IF boundary_condition = "periodic"
    THEN [left |-> current_row[Len(current_row)], right |-> current_row[1]]
    ELSE IF boundary_condition = "one"
    THEN [left |-> ALPHABET[2], right |-> ALPHABET[2]]
    ELSE [left |-> "None", right |-> "None"]

\* "zero" and "one" exchanged
_get_boundary_values_exchanged(boundary_condition, current_row) ==
    IF boundary_condition = "zero"
    THEN [left |-> ALPHABET[2], right |-> ALPHABET[2]]
    ELSE IF boundary_condition = "periodic"
    THEN [left |-> current_row[Len(current_row)], right |-> current_row[1]]
    ELSE IF boundary_condition = "one"
    THEN [left |-> ALPHABET[1], right |-> ALPHABET[1]]
    ELSE [left |-> "None", right |-> "None"]

\* "periodic" returning current_row[0], current_row[-1]
_get_boundary_values_unwrapped(boundary_condition, current_row) ==
    IF boundary_condition = "zero"
    THEN [left |-> ALPHABET[1], right |-> ALPHABET[1]]
    ELSE IF boundary_condition = "periodic"
    THEN [left |-> current_row[1], right |-> current_row[Len(current_row)]]
    ELSE IF boundary_condition = "one"
    THEN [left |-> ALPHABET[2], right |-> ALPHABET[2]]
    ELSE [left |-> "None", right |-> "None"]

_get_boundary_values(boundary_condition, current_row) ==
    IF boundary_condition = "zero"
    THEN [left |-> ALPHABET[1], right |-> ALPHABET[1]]
    ELSE IF boundary_condition = "periodic"
    THEN [left |-> current_row[Len(current_row)], right |-> current_row[1]]
    ELSE IF boundary_condition = "one"
    THEN [left |-> ALPHABET[2], right |-> ALPHABET[2]]
    ELSE [left |-> "None", right |-> "None"]

\* np.hstack(([left_boundary], self._lattice[row - 1], [right_boundary]))
extended_current_row(bv, current_row) == <<bv.left>> \o current_row \o <<bv.right>>

\* the left neighbors taken one cell too far right: extended_current_row[1:-1]
left_neighbors_shifted(ext) == SubSeq(ext, 2, Len(ext) - 1)

\* extended_current_row[:-2]
left_neighbors(ext) == SubSeq(ext, 1, Len(ext) - 2)

\* extended_current_row[1:-1]
center_neighbors(ext) == SubSeq(ext, 2, Len(ext) - 1)

\* extended_current_row[2:]
right_neighbors(ext) == SubSeq(ext, 3, Len(ext))

\* [left + center + right for left, center, right in zip(...)]
patterns(ext) ==
    [i \in 1..Len(left_neighbors(ext)) |->
        <<left_neighbors(ext)[i], center_neighbors(ext)[i], right_neighbors(ext)[i]>>]

\* the engine object of the running call
Self == instances[Key(call.values, call.style)]

engineVars == <<instances, pc, call, row, locals, outcome, returned>>

NoLocals == [left_boundary |-> "", right_boundary |-> ""]

\* CellularAutomata(...): __new__, then __init__ up to the stepping loop.
\* `cap` bounds the number of cached engines.
Call(values, style, cap) ==
    /\ pc = "idle"
    /\ LET key == Key(values, style)
           obj == IF key \in DOMAIN instances THEN instances[key] ELSE NewObject
           head == InitHead(obj, values)
       IN  /\ key \in DOMAIN instances \/ Cardinality(DOMAIN instances) < cap
           /\ call' = [values |-> values, style |-> style,
                       cached |-> key \in DOMAIN instances]
           /\ locals' = NoLocals
           /\ IF Initialized(obj)
              THEN /\ instances' = (key :> obj) @@ instances
                   /\ pc' = "idle"
                   /\ row' = 0
                   /\ outcome' = Ok(key)
                   /\ returned' = (<<values, style>> :> obj._lattice) @@ returned
              ELSE /\ instances' = (key :> head.obj) @@ instances
                   /\ returned' = returned
                   /\ IF head.res.exc = "none"
                      THEN /\ pc' = "compute"
                           /\ row' = 1
                           /\ outcome' = Pending
                      ELSE /\ pc' = "idle"
                           /\ row' = 0
                           /\ outcome' = head.res
    /\ UNCHANGED <<inp, out>>

\* one iteration of the loop of _compute_automaton
ComputeRow ==
    /\ pc = "compute"
    /\ row < Self.frame_steps
    /\ LET current_row == Self._lattice[row]
           bv == _get_boundary_values(Self.boundary_condition, current_row)
           pats == patterns(extended_current_row(bv, current_row))
           table == Self.rule.pattern_to_output
       IN  /\ locals' = [left_boundary |-> bv.left, right_boundary |-> bv.right]
           /\ IF \A i \in 1..Len(pats) : pats[i] \in DOMAIN table
              THEN /\ instances' = [instances EXCEPT
                          ![Key(call.values, call.style)]._lattice[row + 1] =
                              [i \in 1..Len(pats) |-> table[pats[i]]]]
                   /\ row' = row + 1
                   /\ UNCHANGED <<pc, outcome>>
              ELSE /\ pc' = "idle"
                   /\ outcome' = Raise("KeyError", "pattern")
                   /\ UNCHANGED <<instances, row>>
    /\ UNCHANGED <<call, returned, inp, out>>

\* the loop ending one row early: range(1, self.frame_steps - 1)
Finish_one_row_early ==
    /\ pc = "compute"
    /\ row >= Self.frame_steps - 1
    /\ instances' = [instances EXCEPT ![Key(call.values, call.style)]._initialized = TRUE]
    /\ pc' = "idle"
    /\ outcome' = Ok(Key(call.values, call.style))
    /\ returned' = (<<call.values, call.style>> :> Self._lattice) @@ returned
    /\ UNCHANGED <<call, row, locals, inp, out>>

\* the loop is over: self._initialized = True, the engine goes to the caller
Finish ==
    /\ pc = "compute"
    /\ row >= Self.frame_steps
    /\ instances' = [instances EXCEPT ![Key(call.values, call.style)]._initialized = TRUE]
    /\ pc' = "idle"
    /\ outcome' = Ok(Key(call.values, call.style))
    /\ returned' = (<<call.values, call.style>> :> Self._lattice) @@ returned
    /\ UNCHANGED <<call, row, locals, inp, out>>

----------------------------------------------------------------------------
(* HighlightBounds, SliceSpec and the validation of their bounds *)

\* an `int = None` field holds None or an integer: <<>> or <<x>>
None == <<>>

Some(x) == <<x>>

Max(a, b) == IF a > b THEN a ELSE b

\* bool(x) of a field: None and 0 are false
Truthy(field) == field # None /\ field[1] # 0

\* all([...]) of a list of fields
All(fields) == \A i \in 1..Len(fields) : Truthy(fields[i])

HighlightBounds(start_step, steps, offset, width) ==
    [start_step |-> start_step, steps |-> steps, offset |-> offset, width |-> width]

SliceSpec(start_step, steps) == [start_step |-> start_step, steps |-> steps]

\* error_messages of _validate_highlight_bounds, in the order of the appends
error_messages(self, highlight) ==
    LET right == ((self.frame_width + highlight.width[1]) \div 2) + highlight.offset[1]
        left == ((self.frame_width - highlight.width[1]) \div 2) + highlight.offset[1]
    IN  (IF /\ All(<<highlight.start_step, highlight.steps>>)
            /\ highlight.start_step[1] + highlight.steps[1] > self.frame_steps
         THEN <<"highlight ends after frame_steps">> ELSE <<>>)
        \o (IF All(<<highlight.start_step>>) /\ highlight.start_step[1] < 0
            THEN <<"highlight starts before step 0">> ELSE <<>>)
        \o (IF All(<<highlight.offset, highlight.width>>) /\ right > self.frame_width
            THEN <<"highlight exceeds right bound">> ELSE <<>>)
        \o (IF All(<<highlight.offset, highlight.width>>) /\ left < 0
            THEN <<"highlight exceeds left bound">> ELSE <<>>)

\* raise CellularAutomataError(*error_messages)
RaiseAll(messages) ==
    [exc |-> "CellularAutomataError", msg |-> "highlight bounds", val |-> messages]

\* the unspecified highlight bounds set to their default values
WithDefaults(self, highlight) ==
    LET h1 == IF highlight.start_step = None
              THEN [highlight EXCEPT !.start_step = Some(0)] ELSE highlight
        h2 == IF h1.steps = None
              THEN [h1 EXCEPT !.steps = Some(self.frame_steps - h1.start_step[1])] ELSE h1
        h3 == IF h2.offset = None THEN [h2 EXCEPT !.offset = Some(0)] ELSE h2
    IN  IF h3.width = None THEN [h3 EXCEPT !.width = Some(self.frame_width)] ELSE h3

\* the adjustment moving a negative start to 0 and leaving steps as given
Adjusted_start_only(highlight) ==
    IF highlight.start_step[1] < 0
    THEN [highlight EXCEPT !.start_step = Some(0)]
    ELSE highlight

\* the adjustment of a negative start step
Adjusted(highlight) ==
    IF highlight.start_step[1] < 0
    THEN [highlight EXCEPT
             !.steps = Some(Max(0, highlight.steps[1] + highlight.start_step[1])),
             !.start_step = Some(0)]
    ELSE highlight

\* _validate_highlight_bounds(highlight, check_bounds): the exception raised
\* (or none) and the caller's descriptor as the call leaves it
_validate_highlight_bounds(self, highlight, check_bounds) ==
    IF check_bounds /\ error_messages(self, highlight) # <<>>
    THEN [res |-> RaiseAll(error_messages(self, highlight)), highlight |-> highlight]
    ELSE [res |-> Ok(None), highlight |-> Adjusted(WithDefaults(self, highlight))]

\* the strict steps test measured from step 0 whatever the start step is
StrictSliceError_from_zero(self, slice_spec) ==
    IF slice_spec.start_step # None /\ slice_spec.start_step[1] < 0
    THEN "Invalid slice start step. Must be >= 0"
    ELSE IF slice_spec.start_step # None /\ slice_spec.start_step[1] >= self.frame_steps
    THEN "Invalid slice start step. Must be < frame_steps"
    ELSE IF slice_spec.steps # None /\ slice_spec.steps[1] < 1
    THEN "Invalid slice steps. Must be >= 1"
    ELSE IF slice_spec.steps # None /\ slice_spec.steps[1] > self.frame_steps
    THEN "Invalid slice steps. Must be <= frame_steps - start"
    ELSE ""

\* the check_bounds branch of _validate_slice_bounds: the message of the
\* error it raises, "" when it raises none
StrictSliceError(self, slice_spec) ==
    LET fixed_start_step ==
            IF slice_spec.start_step # None THEN slice_spec.start_step[1] ELSE 0
    IN  IF slice_spec.start_step # None /\ slice_spec.start_step[1] < 0
        THEN "Invalid slice start step. Must be >= 0"
        ELSE IF slice_spec.start_step # None /\ slice_spec.start_step[1] >= self.frame_steps
        THEN "Invalid slice start step. Must be < frame_steps"
        ELSE IF slice_spec.steps # None /\ slice_spec.steps[1] < 1
        THEN "Invalid slice steps. Must be >= 1"
        ELSE IF slice_spec.steps # None /\ slice_spec.steps[1] > self.frame_steps - fixed_start_step
        THEN "Invalid slice steps. Must be <= frame_steps - start"
        ELSE ""

\* the start clamped to frame_steps instead of frame_steps - 1
Validated_start_at_end(self, slice_spec) ==
    LET validated_start_step ==
            IF slice_spec.start_step = None \/ slice_spec.start_step[1] < 0 THEN 0
            ELSE IF slice_spec.start_step[1] >= self.frame_steps THEN self.frame_steps
            ELSE slice_spec.start_step[1]
        validated_steps ==
            IF slice_spec.steps = None \/ slice_spec.steps[1] < 1 THEN 1
            ELSE IF slice_spec.steps[1] > self.frame_steps - validated_start_step
            THEN self.frame_steps - validated_start_step
            ELSE slice_spec.steps[1]
    IN  SliceSpec(Some(validated_start_step), Some(validated_steps))

\* SliceSpec(validated_start_step, validated_steps)
Validated(self, slice_spec) ==
    LET validated_start_step ==
            IF slice_spec.start_step = None \/ slice_spec.start_step[1] < 0 THEN 0
            ELSE IF slice_spec.start_step[1] >= self.frame_steps THEN self.frame_steps - 1
            ELSE slice_spec.start_step[1]
        validated_steps ==
            IF slice_spec.steps = None \/ slice_spec.steps[1] < 1 THEN 1
            ELSE IF slice_spec.steps[1] > self.frame_steps - validated_start_step
            THEN self.frame_steps - validated_start_step
            ELSE slice_spec.steps[1]
    IN  SliceSpec(Some(validated_start_step), Some(validated_steps))

\* _validate_slice_bounds(slice_spec, check_bounds); the argument is None
\* or Some(SliceSpec)
_validate_slice_bounds(self, slice_spec, check_bounds) ==
    IF slice_spec = None
    THEN Ok(SliceSpec(Some(0), Some(self.frame_steps)))
    ELSE IF check_bounds /\ StrictSliceError(self, slice_spec[1]) # ""
    THEN Raise("CellularAutomataError", StrictSliceError(self, slice_spec[1]))
    ELSE Ok(Validated(self, slice_spec[1]))

\* grid[slice(start_step, start_step + steps)]: the rows a slice of
\* non-negative bounds selects
RangeRows(grid, slice_spec) ==
    SubSeq(grid, Min(slice_spec.start_step[1], Len(grid)) + 1,
                 Min(slice_spec.start_step[1] + slice_spec.steps[1], Len(grid)))

\* lattice(slice_steps)
lattice(self, slice_steps) ==
    LET validated == _validate_slice_bounds(self, slice_steps, TRUE)
    IN  IF validated.exc # "none" THEN validated
        ELSE Ok(RangeRows(self._lattice, validated.val))

NoQuery == [op |-> "none", self |-> <<>>, check_bounds |-> FALSE, arg |-> None,
            res |-> Pending]

\* engine.lattice(slice_steps) on a constructed engine
GetLattice(k, slice_steps) ==
    /\ pc = "idle"
    /\ instances[k]._initialized
    /\ inp' = [inp EXCEPT !.slice_steps = slice_steps]
    /\ out' = [op |-> "lattice", self |-> k, check_bounds |-> TRUE, arg |-> slice_steps,
               res |-> lattice(instances[k], slice_steps)]
    /\ UNCHANGED engineVars

\* the lenient slice validation _plot_display makes
ValidateSlice(k, slice_steps) ==
    /\ pc = "idle"
    /\ instances[k]._initialized
    /\ inp' = [inp EXCEPT !.slice_steps = slice_steps]
    /\ out' = [op |-> "slice", self |-> k, check_bounds |-> FALSE, arg |-> slice_steps,
               res |-> _validate_slice_bounds(instances[k], slice_steps, FALSE)]
    /\ UNCHANGED engineVars

\* the highlight validation _plot_display makes, strict or lenient: the
\* caller's descriptor is updated in place
ValidateHighlight(k, highlight, check_bounds) ==
    /\ pc = "idle"
    /\ instances[k]._initialized
    /\ LET r == _validate_highlight_bounds(instances[k], highlight, check_bounds)
       IN  /\ inp' = [inp EXCEPT !.highlight = r.highlight]
           /\ out' = [op |-> "highlight", self |-> k, check_bounds |-> check_bounds,
                      arg |-> highlight, res |-> r.res]
    /\ UNCHANGED engineVars

----------------------------------------------------------------------------
(* automata.py: the engine on an integer grid, indexing encoding by the     *)
(* integer value of the neighborhood                                        *)

\* the digits the first while loop of _encode appends, least significant first
RECURSIVE legacy_digits(_, _)
legacy_digits(rule_number, base) ==
    IF rule_number = 0 THEN <<>>
    ELSE <<ALPHABET[(rule_number % base) + 1]>> \o legacy_digits(rule_number \div base, base)

\* Rule._encode(rule_number, base, input_span, length=None)
legacy_encode(rule_number, base, input_span) ==
    LET length == Pow(base, input_span)
        digits == legacy_digits(rule_number, base)
        padded == digits \o [i \in 1..(length - Len(digits)) |-> ALPHABET[1]]
    IN  IF base > Len(ALPHABET)
        THEN Raise("ValueError", "Base too large")
        ELSE Ok(Reverse(padded))

\* Rule(rule_number, base)
legacy_Rule(rule_number, base) ==
    LET input_span == 3
        rules == Pow(base, Pow(base, input_span))
        enc == legacy_encode(rule_number, base, input_span)
    IN  IF rule_number < 0 \/ rule_number > rules - 1
        THEN Raise("CellularAutomataError", "Invalid rule number")
        ELSE IF enc.exc # "none" THEN enc
        ELSE Ok([base |-> base, rule_number |-> rule_number, encoding |-> enc.val])

\* _get_boundary_values(current_row) on integers; -1 stands for None
legacy_get_boundary_values(boundary_condition, current_row) ==
    IF boundary_condition = "zero" THEN [left |-> 0, right |-> 0]
    ELSE IF boundary_condition = "periodic"
    THEN [left |-> current_row[Len(current_row)], right |-> current_row[1]]
    ELSE IF boundary_condition = "one" THEN [left |-> 1, right |-> 1]
    ELSE [left |-> -1, right |-> -1]

\* left_neighbors * base ** 2 + center_neighbors * base + right_neighbors
legacy_patterns(ext, base) ==
    [i \in 1..(Len(ext) - 2) |-> ext[i] * Pow(base, 2) + ext[i + 1] * base + ext[i + 2]]

\* int(c) of a digit character; -1 stands for the ValueError of a letter
legacy_int(c) ==
    IF \E i \in 1..10 : ALPHABET[i] = c THEN AlphabetIndex(c) ELSE -1

\* the output read from the other end of encoding: encoding[pattern]
legacy_output_unreversed(rule, pattern) == legacy_int(rule.encoding[pattern + 1])

\* int(self.rule.encoding[self.rule.base ** 3 - 1 - pattern])
legacy_output(rule, pattern) ==
    legacy_int(rule.encoding[(Pow(rule.base, 3) - 1 - pattern) + 1])

\* the row one iteration of the loop of _compute_automaton assigns
legacy_next_row(rule, boundary_condition, current_row) ==
    LET bv == legacy_get_boundary_values(boundary_condition, current_row)
        ext == <<bv.left>> \o current_row \o <<bv.right>>
        pats == legacy_patterns(ext, rule.base)
    IN  [i \in 1..Len(pats) |-> legacy_output(rule, pats[i])]

\* the lattice after the loop iterations from the one for row `step` on
RECURSIVE legacy_compute_automaton(_, _, _, _)
legacy_compute_automaton(grid, rule, boundary_condition, step) ==
    IF step >= Len(grid) THEN grid
    ELSE legacy_compute_automaton(
             [grid EXCEPT ![step + 1] = legacy_next_row(rule, boundary_condition, grid[step])],
             rule, boundary_condition, step + 1)

\* CellularAutomata(...) of automata.py: the integer lattice, or the
\* exception raised
legacy_CellularAutomata(v) ==
    LET rule == legacy_Rule(v.rule_number, v.base)
        ic == IF Len(v.initial_conditions) % 2 = 0
              THEN <<"0">> \o v.initial_conditions ELSE v.initial_conditions
        center == v.frame_width \div 2
        start == center - (Len(ic) \div 2)
        zeros == [r \in 1..v.frame_steps |-> [c \in 1..v.frame_width |-> 0]]
        row0 == [c \in 1..v.frame_width |->
                    IF c - 1 >= start /\ c - 1 < start + Len(ic)
                    THEN AlphabetIndex(ic[c - start]) ELSE 0]
    IN  IF InvalidBoundary(v.boundary_condition)
        THEN Raise("CellularAutomataError", "Invalid boundary condition")
        ELSE IF rule.exc # "none" THEN rule
        ELSE IF start < 0 \/ start + Len(ic) > v.frame_width
        THEN Raise("CellularAutomataError", "Initial conditions overflow")
        ELSE IF \E i \in 1..Len(ic) : AlphabetIndex(ic[i]) = -1
        THEN Raise("ValueError", "substring not found")
        ELSE IF \E i \in 1..Len(ic) : AlphabetIndex(ic[i]) >= v.base
        THEN Raise("CellularAutomataError", "invalid symbol")
        ELSE Ok(legacy_compute_automaton([zeros EXCEPT ![1] = row0], rule.val,
                                         v.boundary_condition, 1))

----------------------------------------------------------------------------
(* Inputs *)

Bases == 2..MaxBase

BoundaryInputs == {"zero", "periodic", "one", "invalid_boundary"}

\* two symbols valid at every base and one that base 2 rejects
ICSymbols == {ALPHABET[1], ALPHABET[2], ALPHABET[3]}

InitConds == UNION {[1..n -> ICSymbols] : n \in 0..MaxICLen}

EngineRules == {-1, 30, 110, 777777777}

EngineValues ==
    [rule_number : EngineRules, initial_conditions : InitConds, base : Bases,
     frame_width : 1..MaxWidth, frame_steps : 1..MaxSteps,
     boundary_condition : BoundaryInputs]

MemoBase ==
    [rule_number |-> 30, initial_conditions |-> <<"1", "1", "0">>, base |-> 2,
     frame_width |-> 3, frame_steps |-> 3, boundary_condition |-> "periodic"]

\* two valid argument lists and one for each way construction fails: rule
\* number out of range, unknown boundary condition, symbol outside the
\* base, initial conditions wider than the frame, base above the alphabet
MemoValues ==
    { MemoBase,
      [MemoBase EXCEPT !.frame_steps = 2],
      [MemoBase EXCEPT !.rule_number = 256],
      [MemoBase EXCEPT !.boundary_condition = "invalid_boundary"],
      [MemoBase EXCEPT !.initial_conditions = <<"1", "2", "0">>],
      [MemoBase EXCEPT !.frame_width = 2],
      [MemoBase EXCEPT !.base = 37] }

Styles == {"positional", "keyword"}

RefValues ==
    [rule_number : {30}, initial_conditions : {<<"1", "0", "0", "0", "0", "0", "0">>},
     base : {2}, frame_width : {31, 81}, frame_steps : {10, 30, 80},
     boundary_condition : {"zero"}]

\* the arguments of the error tests: a symbol outside base 2 ("2"), one
\* outside base 4 ("A"), a space, and boundary conditions that are not
\* strings (the integer 5 and None, written as the text Python prints)
ErrorSymbols == {"1", "2", "A", " "}

ErrorInitConds == UNION {[1..n -> ErrorSymbols] : n \in 1..2}

ErrorBoundaries == {"zero", "invalid_boundary", "5", "None"}

ErrorValues ==
    [rule_number : {-1, 30}, initial_conditions : ErrorInitConds, base : {2, 4},
     frame_width : {1, 5}, frame_steps : {1, 2},
     boundary_condition : ErrorBoundaries]

\* bases on both sides of the alphabet ceiling, and the degenerate 0 and 1
CeilingBases == {0, 1, 2, 3, 36, 37, 40, 50}

\* Rule tables at base 36 have 36^3 entries; Rule is built at the other bases
CeilingRuleBases == CeilingBases \ {36}

CeilingValues == {-1, 0, 30}

CeilingLengths == {0, 3, 5}

CeilingRuleNumbers == {-1, 0, 30, 777777777}

\* encodings given to _decode directly: the empty string, the encodings of
\* the tests, digits outside base 2, a character outside the alphabet
GivenEncodings ==
    { <<>>,
      <<"0", "0", "0", "1", "1", "1", "1", "0">>,
      <<"0", "0", "0", "1", "1", "2", "1", "0">>,
      <<"4">>, <<"Z">>, <<" ">> }

\* the engines the slice and highlight requests are made on
QueryValues ==
    { [rule_number |-> 30, initial_conditions |-> <<"1">>, base |-> 2,
       frame_width |-> d[1], frame_steps |-> d[2], boundary_condition |-> "zero"] :
      d \in {<<1, 1>>, <<3, 2>>, <<4, 3>>} }

\* a field of a HighlightBounds or SliceSpec: missing, or an integer
FieldValues == {None} \cup {Some(x) : x \in -1..MaxField}

SliceInputs ==
    {None} \cup {Some(SliceSpec(s, n)) : s \in FieldValues, n \in FieldValues}

HighlightInputs ==
    {HighlightBounds(s, n, o, w) :
        s \in FieldValues, n \in FieldValues, o \in FieldValues, w \in FieldValues}

\* the descriptors a caller shares between engines: the default
\* HighlightBounds() of DisplayParams, and ones with some fields given
SharedFieldValues == {None, Some(-1), Some(1)}

SharedHighlights ==
    {HighlightBounds(s, n, o, w) :
        s \in SharedFieldValues, n \in SharedFieldValues,
        o \in SharedFieldValues, w \in SharedFieldValues}

\* frames wider than the initial conditions, rules that keep the quiescent
\* neighborhood quiescent (30; 110 at base 2) and rules that do not (1; 110
\* at base 3), initial conditions with and without a non-quiescent symbol
ConeValues ==
    [rule_number : {1, 30, 110},
     initial_conditions : {<<"0">>, <<"1">>, <<"0", "1">>, <<"1", "0", "1">>},
     base : {2, 3}, frame_width : {5, 7}, frame_steps : {3, 4},
     boundary_condition : {"zero", "periodic"}]

\* valid arguments: every frame height 1..MaxSteps under every boundary
\* policy, at two bases
LoopValues ==
    [rule_number : {30, 110},
     initial_conditions : {<<"1">>, <<"1", "0">>, <<"1", "1", "1">>},
     base : {2, 3}, frame_width : {3, 5}, frame_steps : 1..MaxSteps,
     boundary_condition : {"zero", "periodic", "one"}]

RuleNumbers == (-1..MaxRuleNumber) \cup {512, 700, 777777777}

----------------------------------------------------------------------------
(* Specifications *)

InitEngine ==
    /\ instances = <<>>
    /\ call = [values |-> NoValues, style |-> "none", cached |-> FALSE]
    /\ row = 0
    /\ locals = NoLocals
    /\ outcome = Pending
    /\ returned = <<>>

Init ==
    /\ InitEngine
    /\ pc = "idle"
    /\ inp = <<>>
    /\ out = <<>>

\* constructor calls over a small set of arguments, sharing the memo cache
Next ==
    \/ \E v \in MemoValues, s \in Styles : Call(v, s, MaxInstances)
    \/ ComputeRow
    \/ Finish

Spec == Init /\ [][Next]_vars

\* one construction per behaviour (and repetitions of the same call), over a
\* wide set of arguments
NextEngine ==
    \/ \E v \in (IF instances = <<>> THEN EngineValues ELSE {call.values}) :
           Call(v, "positional", 1)
    \/ ComputeRow
    \/ Finish

SpecEngine == Init /\ [][NextEngine]_vars

\* one construction per behaviour over valid arguments of every frame height
NextLoop ==
    \/ \E v \in (IF instances = <<>> THEN LoopValues ELSE {call.values}) :
           Call(v, "positional", 1)
    \/ ComputeRow
    \/ Finish

\* construction is one sequential call: a loop iteration that can run runs,
\* and so does the return that follows the loop
SpecLoopFair == Init /\ [][NextLoop]_vars /\ WF_vars(ComputeRow) /\ WF_vars(Finish)

\* one construction per behaviour over the arguments of the error tests
NextErrors ==
    \/ \E v \in (IF instances = <<>> THEN ErrorValues ELSE {call.values}) :
           Call(v, "positional", 1)
    \/ ComputeRow
    \/ Finish

SpecErrors == Init /\ [][NextErrors]_vars

\* one construction per behaviour in frames wider than the initial conditions
NextCone ==
    \/ \E v \in (IF instances = <<>> THEN ConeValues ELSE {call.values}) :
           Call(v, "positional", 1)
    \/ ComputeRow
    \/ Finish

SpecCone == Init /\ [][NextCone]_vars

\* the reference evolutions of the test suite
NextRef ==
    \/ \E v \in RefValues : Call(v, "positional", 2)
    \/ ComputeRow
    \/ Finish

SpecRef == Init /\ [][NextRef]_vars

\* Rule(rule_number, base) on its own
InitRule ==
    /\ InitEngine
    /\ pc = "rule"
    /\ inp \in [rule_number : RuleNumbers, base : Bases]
    /\ out = Pending

MakeRule ==
    /\ pc = "rule"
    /\ out' = RuleNew(inp.rule_number, inp.base)
    /\ pc' = "done"
    /\ UNCHANGED <<instances, call, row, locals, outcome, returned, inp>>

SpecRule == InitRule /\ [][MakeRule]_vars

\* Rule._encode and Rule._decode on their own
InitCodec ==
    /\ InitEngine
    /\ pc = "encode"
    /\ inp \in [value : 0..MaxValue, base : Bases, length : 1..MaxLen]
    /\ out = [enc |-> Pending, dec |-> Pending]

Encode ==
    /\ pc = "encode"
    /\ out' = [out EXCEPT !.enc = _encode(inp.value, inp.base, inp.length)]
    /\ pc' = IF out'.enc.exc = "none" THEN "decode" ELSE "done"
    /\ UNCHANGED <<instances, call, row, locals, outcome, returned, inp>>

Decode ==
    /\ pc = "decode"
    /\ out' = [out EXCEPT !.dec = _decode(out.enc.val, inp.base)]
    /\ pc' = "done"
    /\ UNCHANGED <<instances, call, row, locals, outcome, returned, inp>>

NextCodec == Encode \/ Decode

SpecCodec == InitCodec /\ [][NextCodec]_vars

\* slice and highlight requests on a constructed engine; the caller holds
\* one HighlightBounds (at first the default HighlightBounds()) and one
\* slice argument
InitQuery ==
    /\ InitEngine
    /\ pc = "idle"
    /\ inp = [highlight |-> HighlightBounds(None, None, None, None), slice_steps |-> None]
    /\ out = NoQuery

\* one engine and one descriptor per behaviour: a later request validates
\* the descriptor again as the earlier one left it
NextQuery ==
    \/ \E v \in (IF instances = <<>> THEN QueryValues ELSE {call.values}) :
           Call(v, "positional", 1)
    \/ ComputeRow
    \/ Finish
    \/ \E k \in DOMAIN instances :
           \E s \in (IF out.op = "none" THEN SliceInputs ELSE {inp.slice_steps}) :
               GetLattice(k, s)
    \/ \E k \in DOMAIN instances :
           \E s \in (IF out.op = "none" THEN SliceInputs ELSE {inp.slice_steps}) :
               ValidateSlice(k, s)
    \/ \E k \in DOMAIN instances, check_bounds \in BOOLEAN :
           \E h \in (IF out.op = "none" THEN HighlightInputs ELSE {inp.highlight}) :
               ValidateHighlight(k, h, check_bounds)

SpecQuery == InitQuery /\ [][NextQuery]_vars

\* one HighlightBounds object validated against up to two engines, as the
\* shared default of DisplayParams is by the displays of different engines;
\* `given` keeps the descriptor as the caller made it
InitShared ==
    /\ InitEngine
    /\ pc = "idle"
    /\ \E h \in SharedHighlights :
          inp = [highlight |-> h, slice_steps |-> None, given |-> h]
    /\ out = NoQuery

NextShared ==
    \/ \E v \in QueryValues : Call(v, "positional", 2)
    \/ ComputeRow
    \/ Finish
    \/ \E k \in DOMAIN instances, check_bounds \in BOOLEAN :
           ValidateHighlight(k, inp.highlight, check_bounds)

SpecShared == InitShared /\ [][NextShared]_vars

\* Rule._decode on a string the caller supplies
DecodeGiven ==
    /\ pc = "decode_given"
    /\ out' = [out EXCEPT !.dec = _decode(inp.encoding, inp.base)]
    /\ pc' = "done"
    /\ UNCHANGED <<instances, call, row, locals, outcome, returned, inp>>

\* _encode, _decode and Rule(...) on their own, at bases on both sides of
\* the alphabet ceiling
InitCeiling ==
    /\ InitEngine
    /\ \/ /\ pc = "encode"
          /\ inp \in [value : CeilingValues, base : CeilingBases, length : CeilingLengths]
          /\ out = [enc |-> Pending, dec |-> Pending]
       \/ /\ pc = "decode_given"
          /\ inp \in [encoding : GivenEncodings, base : CeilingBases]
          /\ out = [enc |-> Pending, dec |-> Pending]
       \/ /\ pc = "rule"
          /\ inp \in [rule_number : CeilingRuleNumbers, base : CeilingRuleBases]
          /\ out = Pending

NextCeiling == Encode \/ Decode \/ DecodeGiven \/ MakeRule

SpecCeiling == InitCeiling /\ [][NextCeiling]_vars

----------------------------------------------------------------------------
(* Properties *)

\* the 3-symbol neighborhood pattern whose base-N integer value is v
PatternOfValue(v, base) ==
    << ALPHABET[(v \div (base * base)) + 1],
       ALPHABET[((v \div base) % base) + 1],
       ALPHABET[(v % base) + 1] >>

\* C2 (SpecRule): in a constructed Rule the i-th pattern in descending
\* numeric order maps to the i-th character of encoding; the pattern of
\* value v maps to the digit of rule_number of weight base^v; the pattern
\* (base-1)(base-1)(base-1) maps to the first character of encoding; and
\* rule 30 at base 2 maps 111->0, 110->0, 101->0, 011->1.
C2_PatternTable ==
    (pc = "done" /\ out.exc = "none") =>
        LET r == out.val
            n == inp.base * inp.base * inp.base
            top == ALPHABET[inp.base]
        IN  /\ Len(r.encoding) = n
            /\ \A i \in 1..n :
                  r.pattern_to_output[PatternOfValue(n - i, inp.base)] = r.encoding[i]
            /\ \A v \in 0..(n - 1) :
                  r.pattern_to_output[PatternOfValue(v, inp.base)] =
                      ALPHABET[((inp.rule_number \div Pow(inp.base, v)) % inp.base) + 1]
            /\ r.pattern_to_output[<<top, top, top>>] = r.encoding[1]
            /\ (inp.rule_number = 30 /\ inp.base = 2) =>
                  /\ r.pattern_to_output[<<"1", "1", "1">>] = "0"
                  /\ r.pattern_to_output[<<"1", "1", "0">>] = "0"
                  /\ r.pattern_to_output[<<"1", "0", "1">>] = "0"
                  /\ r.pattern_to_output[<<"0", "1", "1">>] = "1"

C2_Witness ==
    /\ pc = "done"
    /\ inp.rule_number = 30
    /\ inp.base = 2
    /\ out.exc = "none"
    /\ out.val.encoding = <<"0", "0", "0", "1", "1", "1", "1", "0">>
    /\ out.val.pattern_to_output[<<"0", "1", "1">>] = "1"

\* 0 <= rule_number <= base^(base^3) - 1
RuleNumberInRange(rule_number, base) ==
    rule_number >= 0 /\ rule_number + 1 <= Pow(base, base * base * base)

\* engines whose construction has completed
Completed == {k \in DOMAIN instances : instances[k]._initialized}

\* the boundary values the boundary policy prescribes for previous row prev
PolicyLeft(bc, prev) ==
    IF bc = "zero" THEN ALPHABET[1]
    ELSE IF bc = "one" THEN ALPHABET[2]
    ELSE prev[Len(prev)]

PolicyRight(bc, prev) ==
    IF bc = "zero" THEN ALPHABET[1]
    ELSE IF bc = "one" THEN ALPHABET[2]
    ELSE prev[1]

\* C1 (SpecEngine): in every completed engine, cell (r, c) for r >= 1 is
\* pattern_to_output of the symbols at positions c, c+1, c+2 of
\* [left_boundary] + row(r-1) + [right_boundary].
C1_Stepping ==
    \A k \in Completed :
        LET o == instances[k]
        IN  \A r \in 1..(o.frame_steps - 1) :
                LET prev == o._lattice[r]
                    E == <<PolicyLeft(o.boundary_condition, prev)>> \o prev
                            \o <<PolicyRight(o.boundary_condition, prev)>>
                IN  \A c \in 0..(o.frame_width - 1) :
                        o._lattice[r + 1][c + 1] =
                            o.rule.pattern_to_output[<<E[c + 1], E[c + 2], E[c + 3]>>]

C1_Witness ==
    \E k \in Completed :
        /\ instances[k].rule.rule_number = 30
        /\ instances[k].boundary_condition = "zero"
        /\ instances[k]._lattice =
              << <<"0", "1", "0">>, <<"1", "1", "1">>, <<"1", "0", "0">> >>

\* C3 (SpecEngine): every cell of a completed grid is one of the first
\* `base` alphabet symbols.
C3_CellsInAlphabet ==
    \A k \in Completed :
        LET o == instances[k]
        IN  \A r \in 1..o.frame_steps : \A c \in 1..o.frame_width :
                \E i \in 1..o.rule.base : o._lattice[r][c] = ALPHABET[i]

C3_Witness ==
    \E k \in Completed :
        /\ instances[k].rule.base = 3
        /\ instances[k].frame_steps = 3
        /\ \E c \in 1..instances[k].frame_width : instances[k]._lattice[1][c] = "2"
        /\ \E c \in 1..instances[k].frame_width : instances[k]._lattice[3][c] = "2"

\* C4 (Spec): two constructor calls with the same argument values hand
\* their callers grids that are equal cell by cell.
C4_Determinism ==
    \A c1 \in DOMAIN returned : \A c2 \in DOMAIN returned :
        c1[1] = c2[1] => returned[c1] = returned[c2]

C4_Witness ==
    \E c1 \in DOMAIN returned : \E c2 \in DOMAIN returned :
        /\ c1[1] = c2[1]
        /\ c1[2] # c2[2]
        /\ returned[c1] = returned[c2]
        /\ Len(returned[c1]) = 3
        /\ \E c \in 1..3 : returned[c1][3][c] = "1"

Row31_4 ==
    << "0", "0", "0", "0", "0", "0", "0", "0", "1", "1", "0", "0", "1", "0", "0", "0",
       "1", "0", "0", "0", "0", "0", "0", "0", "0", "0", "0", "0", "0", "0", "0" >>

Row81_4 ==
    << "0", "0", "0", "0", "0", "0", "0", "0", "0", "0", "0", "0", "0", "0", "0", "0",
       "0", "0", "0", "0", "0", "0", "0", "0", "0", "0", "0", "0", "0", "0", "0", "0",
       "0", "1", "1", "0", "0", "1", "0", "0", "0", "1", "0", "0", "0", "0", "0", "0",
       "0", "0", "0", "0", "0", "0", "0", "0", "0", "0", "0", "0", "0", "0", "0", "0",
       "0", "0", "0", "0", "0", "0", "0", "0", "0", "0", "0", "0", "0", "0", "0", "0",
       "0" >>

Row81_20 ==
    << "0", "0", "0", "0", "0", "0", "0", "0", "0", "0", "0", "0", "0", "0", "0", "0",
       "0", "1", "1", "0", "0", "1", "0", "0", "0", "1", "1", "1", "0", "0", "1", "1",
       "1", "1", "0", "0", "0", "0", "0", "1", "1", "1", "1", "0", "1", "1", "1", "0",
       "1", "1", "0", "0", "0", "1", "0", "0", "0", "1", "0", "0", "0", "0", "0", "0",
       "0", "0", "0", "0", "0", "0", "0", "0", "0", "0", "0", "0", "0", "0", "0", "0",
       "0" >>

\* C8 (SpecRef): rule 30, base 2, "1000000", zero boundary: row 4 at
\* frame_width 31 and row 20 at frame_width 81 are the reference rows, and
\* a row is the same whatever frame_steps is.
C8_ReferenceRows ==
    /\ \A k \in Completed :
          LET o == instances[k]
          IN  /\ o.frame_width = 31 => o._lattice[4 + 1] = Row31_4
              /\ o.frame_width = 81 => o._lattice[4 + 1] = Row81_4
              /\ (o.frame_width = 81 /\ o.frame_steps > 20) => o._lattice[20 + 1] = Row81_20
    /\ \A k1 \in Completed : \A k2 \in Completed :
          LET o1 == instances[k1]
              o2 == instances[k2]
          IN  o1.frame_width = o2.frame_width =>
                  \A r \in 1..Min(o1.frame_steps, o2.frame_steps) :
                      o1._lattice[r] = o2._lattice[r]

C8_Witness ==
    /\ \E k \in Completed :
          /\ instances[k].frame_width = 81
          /\ instances[k].frame_steps = 30
          /\ instances[k]._lattice[20 + 1] = Row81_20
    /\ \E k \in Completed :
          /\ instances[k].frame_width = 81
          /\ instances[k].frame_steps = 80

\* C9 (SpecEngine): with "zero" both boundary values used for a computed
\* row are alphabet symbol 0, with "one" both are alphabet symbol 1,
\* whatever the previous row holds.
C9_ConstantBoundary ==
    locals # NoLocals =>
        /\ Self.boundary_condition = "zero" =>
              (locals.left_boundary = ALPHABET[1] /\ locals.right_boundary = ALPHABET[1])
        /\ Self.boundary_condition = "one" =>
              (locals.left_boundary = ALPHABET[2] /\ locals.right_boundary = ALPHABET[2])

C9_Witness ==
    /\ pc = "compute"
    /\ row = 2
    /\ Self.boundary_condition = "one"
    /\ Self._lattice[1] = <<"0", "0", "0">>
    /\ locals = [left_boundary |-> "1", right_boundary |-> "1"]

\* C10 (SpecEngine): with "periodic" the boundary values used for row r are
\* the last and the first cell of row r-1, and every completed grid is the
\* evolution on a ring, frame_width 1 included.
C10_Periodic ==
    /\ (pc = "compute" /\ row > 1 /\ Self.boundary_condition = "periodic") =>
          /\ locals.left_boundary = Self._lattice[row - 1][Self.frame_width]
          /\ locals.right_boundary = Self._lattice[row - 1][1]
    /\ \A k \in Completed :
          LET o == instances[k]
              w == o.frame_width
          IN  o.boundary_condition = "periodic" =>
                  \A r \in 1..(o.frame_steps - 1) : \A c \in 0..(w - 1) :
                      o._lattice[r + 1][c + 1] =
                          o.rule.pattern_to_output[
                              << o._lattice[r][((c + w - 1) % w) + 1],
                                 o._lattice[r][c + 1],
                                 o._lattice[r][((c + 1) % w) + 1] >>]

C10_Witness ==
    \E k \in Completed :
        /\ instances[k].boundary_condition = "periodic"
        /\ instances[k].rule.rule_number = 30
        /\ instances[k]._lattice = << <<"1">>, <<"0">>, <<"0">> >>

\* C5 (SpecRule): Rule construction succeeds if and only if
\* 0 <= rule_number <= base^(base^3) - 1; outside that range it fails with
\* the validation error and no Rule is produced (512, 700 and 256 at base 2,
\* -1 at base 3).
C5_RuleNumberRange ==
    pc = "done" =>
        /\ out.exc = "none" <=> RuleNumberInRange(inp.rule_number, inp.base)
        /\ out.exc # "none" => (out.exc = "CellularAutomataError" /\ out.val = <<>>)
        /\ (inp.base = 2 /\ inp.rule_number \in {256, 512, 700}) =>
              out.exc = "CellularAutomataError"
        /\ (inp.base = 2 /\ inp.rule_number \in 0..255) => out.exc = "none"
        /\ inp.rule_number = -1 => out.exc = "CellularAutomataError"

C5_Witness ==
    /\ pc = "done"
    /\ inp.base = 2
    /\ inp.rule_number = 256
    /\ out.exc = "CellularAutomataError"

\* C6 (SpecCodec): decode(encode(n, base, length), base) = n whenever
\* 0 <= n < base^length; decode("00011110", 2) = 30, decode("0101", 2) = 5.
C6_RoundTrip ==
    pc = "done" =>
        /\ inp.value < inp.base ^ inp.length =>
              (out.dec.exc = "none" /\ out.dec.val = inp.value)
        /\ (inp.base = 2 /\ out.enc.val = <<"0", "0", "0", "1", "1", "1", "1", "0">>) =>
              out.dec.val = 30
        /\ (inp.base = 2 /\ out.enc.val = <<"0", "1", "0", "1">>) =>
              out.dec.val = 5

C6_Witness ==
    /\ pc = "done"
    /\ inp = [value |-> 30, base |-> 2, length |-> 8]
    /\ out.enc.val = <<"0", "0", "0", "1", "1", "1", "1", "0">>
    /\ out.dec.val = 30

\* C7 (SpecCodec): encode(value, base, length) has exactly `length`
\* symbols, and its symbol at position i from the right is
\* alphabet[(value // base^i) % base]; encode(30,2,8) = "00011110",
\* encode(5,2,4) = "0101".
C7_EncodeDigits ==
    pc # "encode" =>
        /\ out.enc.exc = "none"
        /\ Len(out.enc.val) = inp.length
        /\ \A i \in 0..(inp.length - 1) :
              out.enc.val[inp.length - i] =
                  ALPHABET[((inp.value \div (inp.base ^ i)) % inp.base) + 1]
        /\ inp = [value |-> 30, base |-> 2, length |-> 8] =>
              out.enc.val = <<"0", "0", "0", "1", "1", "1", "1", "0">>
        /\ inp = [value |-> 5, base |-> 2, length |-> 4] =>
              out.enc.val = <<"0", "1", "0", "1">>

C7_Witness ==
    /\ pc = "decode"
    /\ inp = [value |-> 5, base |-> 2, length |-> 8]
    /\ out.enc.val = <<"0", "0", "0", "0", "0", "1", "0", "1">>

\* C11 (SpecEngine): with a valid boundary condition and rule, and L the
\* length of initial_conditions after the padding of an even length and
\* start = frame_width//2 - L//2, construction fails with the overflow
\* error if and only if start < 0 or start + L > frame_width.
C11_Overflow ==
    LET v == call.values
        L == IF Len(v.initial_conditions) % 2 = 0
             THEN Len(v.initial_conditions) + 1 ELSE Len(v.initial_conditions)
        start == (v.frame_width \div 2) - (L \div 2)
        overflow == start < 0 \/ start + L > v.frame_width
    IN  /\ (/\ pc = "idle"
            /\ call.style # "none"
            /\ v.boundary_condition \in {"zero", "periodic", "one"}
            /\ RuleNumberInRange(v.rule_number, v.base)) =>
              (outcome.msg = "Initial conditions overflow" <=> overflow)
        /\ outcome.msg = "Initial conditions overflow" =>
              (outcome.exc = "CellularAutomataError" /\ overflow)
        /\ pc = "compute" => ~ overflow

C11_Witness ==
    /\ pc = "idle"
    /\ outcome.exc = "CellularAutomataError"
    /\ outcome.msg = "Initial conditions overflow"
    /\ Len(call.values.initial_conditions) = 2
    /\ call.values.frame_width = 2

\* C12 (SpecErrors): whenever some character of initial_conditions is not
\* one of the first `base` alphabet symbols, construction fails with
\* CellularAutomataError and no engine is produced: nothing is returned and
\* the cached object is not initialized; when the boundary condition and
\* the rule are valid and the string fits the frame, the error is the
\* invalid-symbol one.
C12_InvalidSymbol ==
    LET v == call.values
        bad == \E i \in 1..Len(v.initial_conditions) :
                   ~ \E j \in 1..v.base : ALPHABET[j] = v.initial_conditions[i]
    IN  (call.style # "none" /\ bad) =>
            /\ pc = "idle"
            /\ outcome.exc = "CellularAutomataError"
            /\ returned = <<>>
            /\ \A k \in DOMAIN instances : ~ instances[k]._initialized
            /\ (/\ v.boundary_condition = "zero"
                /\ v.rule_number >= 0
                /\ v.frame_width = 5) => outcome.msg = "invalid symbol"

C12_Witness ==
    /\ pc = "idle"
    /\ call.values.base = 4
    /\ call.values.initial_conditions = <<"1", "A">>
    /\ call.values.rule_number = 30
    /\ outcome = Raise("CellularAutomataError", "invalid symbol")
    /\ returned = <<>>

\* C13 (SpecErrors): a boundary_condition that is not "zero", "periodic" or
\* "one" (5 and None included) makes construction fail with the
\* invalid-boundary-condition error, whatever the rule number and the
\* initial conditions are, and before any attribute of the object is set.
C13_InvalidBoundary ==
    (call.style # "none" /\ call.values.boundary_condition \notin {"zero", "periodic", "one"}) =>
        /\ pc = "idle"
        /\ outcome = Raise("CellularAutomataError", "Invalid boundary condition")
        /\ returned = <<>>
        /\ \A k \in DOMAIN instances : instances[k] = NewObject

C13_Witness ==
    /\ pc = "idle"
    /\ call.values.boundary_condition = "5"
    /\ call.values.rule_number = -1
    /\ call.values.initial_conditions = <<"A", " ">>
    /\ call.values.frame_width = 1
    /\ outcome = Raise("CellularAutomataError", "Invalid boundary condition")

\* the operation a standalone call of SpecCeiling has made
CeilingOp ==
    IF "value" \in DOMAIN inp THEN "encode"
    ELSE IF "encoding" \in DOMAIN inp THEN "decode"
    ELSE "rule"

BaseTooLarge == Raise("ValueError", "Base too large")

C15_StrictSlice ==
    out.op = "lattice" =>
        LET o == instances[out.self]
            fs == o.frame_steps
        IN  /\ out.arg = None =>
                  (out.res = Ok(o._lattice) /\ Len(out.res.val) = fs)
            /\ (/\ out.arg # None
                /\ out.arg[1].start_step # None
                /\ out.arg[1].steps # None) =>
                  LET s == out.arg[1].start_step[1]
                      n == out.arg[1].steps[1]
                  IN  IF 0 <= s /\ s < fs /\ n >= 1 /\ s + n <= fs
                      THEN out.res = Ok([i \in 1..n |-> o._lattice[s + i]])
                      ELSE out.res.exc = "CellularAutomataError"

C15_Witness ==
    /\ out.op = "lattice"
    /\ out.arg = Some(SliceSpec(Some(1), Some(2)))
    /\ instances[out.self].frame_steps = 3
    /\ out.res.exc = "none"
    /\ out.res.val = <<instances[out.self]._lattice[2], instances[out.self]._lattice[3]>>
    /\ out.res.val[1] # out.res.val[2]

ViolatedConstraints(h, fs, fw) ==
    {c \in {"start", "end", "right", "left"} :
        \/ c = "start" /\ h.start_step # None /\ h.start_step[1] < 0
        \/ c = "end" /\ h.start_step # None /\ h.steps # None
                     /\ h.start_step[1] + h.steps[1] > fs
        \/ c = "right" /\ h.offset # None /\ h.width # None
                       /\ ((fw + h.width[1]) \div 2) + h.offset[1] > fw
        \/ c = "left" /\ h.offset # None /\ h.width # None
                      /\ ((fw - h.width[1]) \div 2) + h.offset[1] < 0}

\* C16 (SpecQuery): the strict highlight validation raises
\* CellularAutomataError for every highlight whose given values violate a
\* constraint - start_step < 0, start_step + steps > frame_steps,
\* (frame_width + width)//2 + offset > frame_width or
\* (frame_width - width)//2 + offset < 0 - start_step = 0 and offset = 0
\* included.
C16_StrictHighlight ==
    (out.op = "highlight" /\ out.check_bounds) =>
        LET o == instances[out.self]
        IN  ViolatedConstraints(out.arg, o.frame_steps, o.frame_width) # {} =>
                out.res.exc = "CellularAutomataError"

\* C17 (SpecQuery): the error the strict highlight validation raises
\* carries one message for each constraint the highlight violates.
C17_AllViolations ==
    (/\ out.op = "highlight"
     /\ out.check_bounds
     /\ out.res.exc = "CellularAutomataError") =>
        LET o == instances[out.self]
        IN  Len(out.res.val) =
                Cardinality(ViolatedConstraints(out.arg, o.frame_steps, o.frame_width))

ValidationErrors == {"CellularAutomataError", "ValueError"}

\* grid is a whole computed grid of engine o: frame_steps rows of
\* frame_width cells, every row after the first stepped from the one before
WholeGrid(grid, o) ==
    /\ Len(grid) = o.frame_steps
    /\ \A r \in 1..Len(grid) : Len(grid[r]) = o.frame_width
    /\ \A r \in 1..(Len(grid) - 1) :
          LET E == <<PolicyLeft(o.boundary_condition, grid[r])>> \o grid[r]
                      \o <<PolicyRight(o.boundary_condition, grid[r])>>
          IN  \A c \in 1..o.frame_width :
                  /\ <<E[c], E[c + 1], E[c + 2]>> \in DOMAIN o.rule.pattern_to_output
                  /\ grid[r + 1][c] = o.rule.pattern_to_output[<<E[c], E[c + 1], E[c + 2]>>]

\* every grid handed to a caller is the whole computed grid of an
\* initialized engine made from the caller's arguments, and every finished
\* call has either returned such an engine or raised a validation error and
\* returned nothing
NoPartialEngine ==
    /\ \A c \in DOMAIN returned :
          LET k == <<c[2], c[1]>>
          IN  /\ k \in DOMAIN instances
              /\ instances[k]._initialized
              /\ instances[k].frame_steps = c[1].frame_steps
              /\ instances[k].frame_width = c[1].frame_width
              /\ instances[k].rule.rule_number = c[1].rule_number
              /\ returned[c] = instances[k]._lattice
              /\ WholeGrid(returned[c], instances[k])
    /\ (pc = "idle" /\ call.style # "none") =>
          LET k == <<call.style, call.values>>
          IN  \/ /\ outcome.exc = "none"
                 /\ <<call.values, call.style>> \in DOMAIN returned
              \/ /\ outcome.exc \in ValidationErrors
                 /\ k \in DOMAIN instances
                 /\ ~ instances[k]._initialized
                 /\ <<call.values, call.style>> \notin DOMAIN returned

\* a call whose arguments are those of an object the cache holds
\* uninitialized - left there by a call that failed - fails again, returns
\* nothing and leaves the object uninitialized
FailsAgain ==
    LET k == <<call'.style, call'.values>>
    IN  (/\ pc = "idle"
         /\ k \in DOMAIN instances
         /\ ~ instances[k]._initialized) =>
            /\ pc' = "idle"
            /\ outcome'.exc \in ValidationErrors
            /\ ~ instances'[k]._initialized
            /\ returned' = returned

\* C20 (Spec): after any sequence of constructor calls every call has either
\* returned an engine whose whole grid is computed or raised a validation
\* error; no engine with an uncomputed or partly computed grid reaches a
\* caller, also not from the memo cache after an earlier call with the same
\* arguments failed; arguments that failed once fail on every later call.
C20_NoPartialConstruction == [] NoPartialEngine /\ [][FailsAgain]_vars

C20_Witness ==
    /\ pc = "idle"
    /\ call.cached
    /\ outcome = Raise("CellularAutomataError", "Initial conditions overflow")
    /\ instances[<<call.style, call.values>>]._lattice # <<>>
    /\ ~ instances[<<call.style, call.values>>]._initialized
    /\ returned # <<>>

\* no step changes an engine whose construction has completed
EngineKept ==
    \A k \in DOMAIN instances :
        instances[k]._initialized =>
            (k \in DOMAIN instances' /\ instances'[k] = instances[k])

\* C21 (SpecQuery): once the constructor has returned, no operation -
\* lattice access with or without a slice, strict or lenient slice
\* validation, strict or lenient highlight validation, a repeated
\* constructor call with the same arguments - changes a cell of the grid
\* or the engine's rule, dimensions or boundary policy.
C21_Immutable == [][EngineKept]_vars

C21_Witness ==
    /\ pc = "idle"
    /\ call.cached
    /\ outcome.exc = "none"
    /\ out.op = "highlight"
    /\ ~ out.check_bounds
    /\ out.arg # inp.highlight
    /\ instances[out.self]._initialized
    /\ instances[out.self]._lattice = returned[<<call.values, call.style>>]

\* C22 (SpecCeiling): _encode fails with the base ValueError for base 1 and
\* base 0 as it does for base 40 and 50, and _decode fails with a
\* ValueError for base 0.
C22_BaseBelowTwo ==
    (pc \notin {"encode", "decode_given", "rule"}) =>
        /\ (CeilingOp = "encode" /\ inp.base \in {0, 1, 40, 50}) =>
               out.enc = BaseTooLarge
        /\ (CeilingOp = "decode" /\ inp.base = 0) => out.dec.exc = "ValueError"

\* C23 (SpecCeiling): _decode fails with a ValueError whenever the encoding
\* holds a digit whose alphabet index is >= base ("4" or "00011210" at
\* base 2), instead of returning a number.
C23_OutOfBaseDigit ==
    (/\ pc = "done"
     /\ CeilingOp = "decode"
     /\ inp.base >= 2
     /\ \E j \in 1..Len(inp.encoding) :
            \E i \in (inp.base + 1)..Len(ALPHABET) : ALPHABET[i] = inp.encoding[j]) =>
        out.dec.exc = "ValueError"

\* all 3-symbol strings over the first `base` alphabet symbols
AllPatterns(base) ==
    {<<ALPHABET[a], ALPHABET[b], ALPHABET[c]>> : a \in 1..base, b \in 1..base, c \in 1..base}

\* C24 (SpecEngine): for every valid rule number the key set of
\* pattern_to_output is exactly the set of the base^3 3-symbol strings over
\* the first `base` alphabet symbols, and the lookup made for a cell during
\* stepping never misses, under every boundary policy.
C24_TableComplete ==
    /\ \A k \in DOMAIN instances :
          instances[k].rule # NoRule =>
              /\ DOMAIN instances[k].rule.pattern_to_output = AllPatterns(instances[k].rule.base)
              /\ Cardinality(DOMAIN instances[k].rule.pattern_to_output) =
                     instances[k].rule.base * instances[k].rule.base * instances[k].rule.base
    /\ outcome.exc # "KeyError"
    /\ pc = "compute" =>
          \A r \in 1..row : \A c \in 1..Self.frame_width :
              LET prev == Self._lattice[r]
                  E == <<PolicyLeft(Self.boundary_condition, prev)>> \o prev
                          \o <<PolicyRight(Self.boundary_condition, prev)>>
              IN  <<E[c], E[c + 1], E[c + 2]>> \in DOMAIN Self.rule.pattern_to_output

C24_Witness ==
    \E k \in Completed :
        /\ instances[k].rule.base = 3
        /\ instances[k].rule.rule_number = 777777777
        /\ instances[k].boundary_condition = "periodic"
        /\ instances[k].frame_steps = 3
        /\ <<"2", "2", "2">> \in DOMAIN instances[k].rule.pattern_to_output
        /\ \E c \in 1..instances[k].frame_width : instances[k]._lattice[3][c] # "0"

\* C25 (SpecEngine): after a successful construction, with P the initial
\* conditions preceded by one quiescent symbol exactly when their length is
\* even, L the length of P and start = frame_width//2 - L//2, row 0 holds P
\* in columns start..start+L-1 and the quiescent symbol in every other
\* column.
C25_Row0 ==
    \A k \in Completed :
        LET v == k[2]
            P == IF Len(v.initial_conditions) % 2 = 0
                 THEN <<"0">> \o v.initial_conditions ELSE v.initial_conditions
            L == Len(P)
            start == (v.frame_width \div 2) - (L \div 2)
        IN  /\ Len(instances[k]._lattice[1]) = v.frame_width
            /\ \A c \in 0..(v.frame_width - 1) :
                  instances[k]._lattice[1][c + 1] =
                      IF start <= c /\ c <= start + L - 1 THEN P[c - start + 1] ELSE "0"

C25_Witness ==
    \E k \in Completed :
        /\ k[2].initial_conditions = <<"1", "2">>
        /\ k[2].frame_width = 3
        /\ instances[k]._lattice[1] = <<"0", "1", "2">>

\* a first construction that succeeded has run the loop body for rows
\* 1..frame_steps-1 and no further, and every row is computed
LoopRanToEnd ==
    (pc = "idle" /\ outcome.exc = "none" /\ ~ call.cached) =>
        /\ row = Self.frame_steps
        /\ Self._initialized
        /\ WholeGrid(Self._lattice, Self)
        /\ returned[<<call.values, call.style>>] = Self._lattice

\* an iteration of the stepping loop writes the frame_width cells of one
\* row, the next one, and nothing else of the engine
OneRowPerIteration ==
    (pc = "compute" /\ pc' = "compute" /\ row' # row) =>
        /\ row' = row + 1
        /\ row < Self.frame_steps
        /\ Len(Self._lattice'[row']) = Self.frame_width
        /\ Self' = [Self EXCEPT !._lattice[row'] = Self._lattice'[row']]

\* C26 (SpecLoopFair): for every valid input construction terminates after
\* exactly frame_steps - 1 iterations of the stepping loop (none when
\* frame_steps = 1), each writing exactly the frame_width cells of one row,
\* and then every row 0..frame_steps-1 is computed.
C26_Termination ==
    /\ [] LoopRanToEnd
    /\ [][OneRowPerIteration]_vars
    /\ (pc = "compute") ~> (pc = "idle" /\ outcome.exc = "none" /\ row = Self.frame_steps)

C26_Witness ==
    /\ pc = "idle"
    /\ outcome.exc = "none"
    /\ ~ call.cached
    /\ row = 3
    /\ Self.frame_steps = 3
    /\ Self.frame_width = 3
    /\ Self._initialized

\* C27 (SpecEngine): in every constructed rule table the pattern of base-N
\* integer value v maps to encoding[base^3 - 1 - v]; and for the same valid
\* inputs the engine of automata/core.py (symbol grid, dict lookup) and the
\* engine of automata.py (integer grid, arithmetic index) produce grids that
\* agree cell by cell under the map symbol -> alphabet index.
C27_ArithmeticIndex ==
    /\ \A k \in DOMAIN instances :
          instances[k].rule # NoRule =>
              LET r == instances[k].rule
                  n == r.base * r.base * r.base
              IN  \A v \in 0..(n - 1) :
                      r.pattern_to_output[PatternOfValue(v, r.base)] = r.encoding[(n - 1 - v) + 1]
    /\ \A k \in Completed :
          LET legacy == legacy_CellularAutomata(k[2])
              grid == instances[k]._lattice
          IN  /\ legacy.exc = "none"
              /\ Len(legacy.val) = Len(grid)
              /\ \A r \in 1..Len(grid) :
                    /\ Len(legacy.val[r]) = Len(grid[r])
                    /\ \A c \in 1..Len(grid[r]) :
                          legacy.val[r][c] = AlphabetIndex(grid[r][c])

C27_Witness ==
    \E k \in Completed :
        /\ k[2].base = 3
        /\ k[2].rule_number = 777777777
        /\ k[2].frame_steps = 3
        /\ k[2].boundary_condition = "one"
        /\ legacy_CellularAutomata(k[2]).exc = "none"
        /\ \E c \in 1..k[2].frame_width :
              /\ legacy_CellularAutomata(k[2]).val[3][c] = 2
              /\ instances[k]._lattice[3][c] = "2"

\* a call whose key the cache holds with a finished engine returns that
\* engine at once: nothing is validated or computed, the cache and every
\* attribute stay as they are, and the caller gets the grid the first call
\* computed
ServedFromCache ==
    LET k == <<call'.style, call'.values>>
    IN  (/\ pc = "idle"
         /\ k \in DOMAIN instances
         /\ instances[k]._initialized) =>
            /\ pc' = "idle"
            /\ call'.cached
            /\ instances' = instances
            /\ outcome' = Ok(k)
            /\ returned'[<<call'.values, call'.style>>] = instances[k]._lattice
            /\ <<call'.values, call'.style>> \in DOMAIN returned
            /\ returned'[<<call'.values, call'.style>>] = returned[<<call'.values, call'.style>>]

\* C28 (Spec): of two successful constructor calls with the same positional
\* arguments and the same keyword arguments the second returns the engine
\* instance of the first, and neither validates nor computes anything: the
\* grid and all attributes are those the first call left.
C28_Memoized == [][ServedFromCache]_vars

C28_Witness ==
    /\ pc = "idle"
    /\ call.cached
    /\ outcome = Ok(<<call.style, call.values>>)
    /\ instances[<<call.style, call.values>>]._initialized
    /\ call.style = "keyword"
    /\ Cardinality(DOMAIN instances) = 3
    /\ returned[<<call.values, call.style>>] = instances[<<call.style, call.values>>]._lattice

\* C29 (SpecShared): after every highlight validation that returns, the
\* fields the caller left unspecified hold the defaults of the engine the
\* descriptor was just validated against - start_step 0, steps =
\* frame_steps - start_step, offset 0, width = frame_width - also when the
\* descriptor was validated earlier against an engine of other dimensions.
C29_DefaultsFollow ==
    (out.op = "highlight" /\ out.res.exc = "none") =>
        LET g == inp.given
            h == inp.highlight
            o == instances[out.self]
        IN  /\ g.start_step = None => h.start_step = Some(0)
            /\ g.steps = None => h.steps = Some(o.frame_steps - h.start_step[1])
            /\ g.offset = None => h.offset = Some(0)
            /\ g.width = None => h.width = Some(o.frame_width)

\* C30 (SpecCone): with boundary_condition "zero" and a rule number
\* divisible by base, if the padded initial conditions occupy columns
\* a..b-1 of row 0, every cell of row r in a column c < a - r or c >= b + r
\* is the quiescent symbol; an all-quiescent row 0 gives an all-quiescent
\* grid.
C30_LightCone ==
    \A k \in Completed :
        (k[2].boundary_condition = "zero" /\ k[2].rule_number % k[2].base = 0) =>
            LET v == k[2]
                L == IF Len(v.initial_conditions) % 2 = 0
                     THEN Len(v.initial_conditions) + 1 ELSE Len(v.initial_conditions)
                a == (v.frame_width \div 2) - (L \div 2)
                b == a + L
                grid == instances[k]._lattice
            IN  /\ \A r \in 0..(v.frame_steps - 1) : \A c \in 0..(v.frame_width - 1) :
                      (c < a - r \/ c >= b + r) => grid[r + 1][c + 1] = "0"
                /\ (\A c \in 1..v.frame_width : grid[1][c] = "0") =>
                      \A r \in 1..v.frame_steps : \A c \in 1..v.frame_width : grid[r][c] = "0"

C30_Witness ==
    \E k \in Completed :
        /\ k[2].boundary_condition = "zero"
        /\ k[2].rule_number = 30
        /\ k[2].base = 2
        /\ k[2].initial_conditions = <<"1">>
        /\ k[2].frame_width = 7
        /\ k[2].frame_steps = 3
        /\ instances[k]._lattice[3] = <<"0", "1", "1", "0", "0", "1", "0">>

====
